---- MODULE Spec2Model ----
(***************************************************************************)
(* Model of vsc-filesystems-quota, lib/vsc/filesystem/quota/tools.py:      *)
(* the DjangoPusher context manager (buffers, automatic flush, flush on    *)
(* scope exit, dry-run) and the wire record built by push_quota.           *)
(***************************************************************************)
EXTENDS Integers, Sequences, FiniteSets, TLC

VARIABLES
    kind,       \* self.kind, fixed at construction
    dry_run,    \* self.dry_run, fixed at construction
    count,      \* self.count: sink key -> number of buffered records
    payload,    \* self.payload: sink key -> buffered records
    pushlog,    \* sink key -> the _push invocations made for it, in order
    dropped,    \* number of "unknown storage" errors logged by push
    pushed,     \* sink key -> the records handed to push for it, in order
    inputs,     \* the arguments of the push_quota calls, in order
    phase,      \* "new" | "open" (inside the with block) | "exited"
    exits,      \* number of completed __exit__ calls
    raised,     \* exception in flight inside the with block
    orig,       \* exc_type handed to the last __exit__
    outcome     \* exception leaving the with statement after __exit__

\* get_quota_maps
VARIABLES
    replication_factor, \* storage[storage_name].data_replication_factor
    timestamp,          \* int(time.time()) of the pass
    user_map,           \* owner -> QuotaUser
    fs_map,             \* fileset id -> QuotaFileset
    agg_pc,             \* "idle" | "usr" | "fileset" | "done"
    agg_seen            \* the raw records handed to _update_quota_entity, in order

\* process_user_quota / process_fileset_quota
VARIABLES
    proc_pc,            \* "idle" | "user" | "vo" | "returned" | "raised"
    proc_todo,          \* keys of quota_map the loop has not visited yet
    exceeding,          \* exceeding_users / exceeding_filesets
    proc_seen           \* what the loop did with each key it visited

\* process_inodes_information
VARIABLES
    backend,            \* the storage argument
    inode_pc,           \* "idle" | "scan" | "returned"
    inode_todo,         \* fileset keys the loop has not visited yet
    inode_seen,         \* the fileset and quota records the loop has read
    critical_filesets   \* the dict under construction

\* dquota main
VARIABLES
    main_pc,            \* "idle" | "loop" | "failed" | "epilogue"
    main_todo,          \* storage names still to process, in order
    main_log            \* what happened to each storage visited, in order

pusher_vars == <<kind, dry_run, count, payload, pushlog, dropped, pushed, inputs,
                 phase, exits, raised, orig, outcome>>
agg_vars == <<replication_factor, timestamp, user_map, fs_map, agg_pc, agg_seen>>
proc_vars == <<proc_pc, proc_todo, exceeding, proc_seen>>
inode_vars == <<backend, inode_pc, inode_todo, inode_seen, critical_filesets>>
main_vars == <<main_pc, main_todo, main_log>>
rest_vars == <<agg_vars, proc_vars, inode_vars, main_vars>>

vars == <<pusher_vars, rest_vars>>

---------------------------------------------------------------------------
\* Bounds of the exploration
MaxPush == 250        \* pushes per sink key in Spec
MaxMinor == 2         \* pushes to the less used sink key
MaxFail == 2          \* failing network calls per run
MaxUnknown == 1       \* pushes to an unknown sink key per run
MaxReusePush == 2     \* pushes per sink key in SpecReuse
MaxEnter == 2         \* scopes entered in SpecReuse
MaxQuotaPush == 2     \* push_quota calls in SpecQuota

---------------------------------------------------------------------------
\* Program constants
QUOTA_USER_KIND == "user"
QUOTA_VO_KIND == "vo"
OTHER_KIND == "group"            \* any kind that is neither user nor vo
BatchSize == 100

storage_name == "vsc_data"
storage_name_shared == "vsc_data_shared"
other_storage == "vsc_scratch"   \* a sink key the dispatcher does not know

Keys == {storage_name, storage_name_shared}

\* Exceptions: none, one raised by the caller's code inside the with block,
\* one raised by the n-th sink call for a key.
NoExc == [type |-> "none", key |-> "", call |-> 0]
BodyExc == [type |-> "body", key |-> "", call |-> 0]
SinkExc(k, n) == [type |-> "sink", key |-> k, call |-> n]

\* Optional integer: None or an integer
None == <<>>
Some(n) == <<n>>

---------------------------------------------------------------------------
\* The mutable part of a DjangoPusher together with what it has emitted;
\* exc is the exception raised by the call that produced the record.
Self ==
    [count |-> count, payload |-> payload, pushlog |-> pushlog,
     dropped |-> dropped, exc |-> NoExc]

\* DjangoPusher._push: origin tells who called ("auto" from push, "exit"
\* from __exit__); fail is the sink's answer to this call.
LogEntry(body, origin, result, endpoint) ==
    [body |-> body, origin |-> origin, result |-> result, endpoint |-> endpoint]

_push_nodry(s, k, body, origin, fail) ==
    IF kind = QUOTA_USER_KIND \/ kind = QUOTA_VO_KIND
    THEN [s EXCEPT !.pushlog[k] =
                      Append(@, LogEntry(body, origin,
                                         IF fail THEN "failed" ELSE "ok", kind)),
                   !.exc = IF fail THEN SinkExc(k, Len(s.pushlog[k]) + 1) ELSE NoExc]
    ELSE [s EXCEPT !.pushlog[k] = Append(@, LogEntry(body, origin, "nokind", "")),
                   !.exc = NoExc]

_push(s, k, body, origin, fail) ==
    IF dry_run
    THEN [s EXCEPT !.pushlog[k] = Append(@, LogEntry(body, origin, "logged", "")),
                   !.exc = NoExc]
    ELSE IF kind = QUOTA_USER_KIND \/ kind = QUOTA_VO_KIND
    THEN [s EXCEPT !.pushlog[k] =
                      Append(@, LogEntry(body, origin,
                                         IF fail THEN "failed" ELSE "ok", kind)),
                   !.exc = IF fail THEN SinkExc(k, Len(s.pushlog[k]) + 1) ELSE NoExc]
    ELSE [s EXCEPT !.pushlog[k] = Append(@, LogEntry(body, origin, "nokind", "")),
                   !.exc = NoExc]

\* push, lines 82-84: an unknown sink key is logged and dropped
drop_unknown_default(s, k, item) ==
    [s EXCEPT !.dropped = @ + 1,
              !.payload[storage_name] = Append(@, item),
              !.count[storage_name] = @ + 1,
              !.exc = NoExc]

drop_unknown(s, k, item) ==
    [s EXCEPT !.dropped = @ + 1, !.exc = NoExc]

\* push, lines 86-87
appended(s, k, item) ==
    [s EXCEPT !.payload[k] = Append(@, item), !.count[k] = @ + 1]

\* push, line 89
flush_due_ge(s, k) == s.count[k] >= BatchSize

flush_due(s, k) == s.count[k] > BatchSize

\* push, lines 91-92
after_flush_keep(s, k) == [s EXCEPT !.count[k] = 0]

after_flush(s, k) == [s EXCEPT !.count[k] = 0, !.payload[k] = <<>>]

\* DjangoPusher.push
push(s, k, item, fail) ==
    IF k \notin DOMAIN s.payload
    THEN drop_unknown(s, k, item)
    ELSE LET s1 == appended(s, k, item)
         IN  IF flush_due(s1, k)
             THEN LET s2 == _push(s1, k, s1.payload[k], "auto", fail)
                  IN  IF s2.exc # NoExc THEN s2 ELSE after_flush(s2, k)
             ELSE [s1 EXCEPT !.exc = NoExc]

\* Python's `x or 0` on an optional integer
OrZero(x) == IF x = None \/ x = Some(0) THEN 0 ELSE x[1]

\* push_quota, lines 103-122: the wire record
params_swapped(owner, fileset, quota) ==
    [fileset |-> fileset,
     used |-> quota.used, soft |-> quota.soft,
     hard |-> quota.hard, doubt |-> quota.doubt,
     expired |-> quota.files_expired[1],
     remaining |-> OrZero(quota.expired[2]),
     files_used |-> quota.files_used, files_soft |-> quota.files_soft,
     files_hard |-> quota.files_hard, files_doubt |-> quota.files_doubt,
     files_expired |-> quota.files_expired[1],
     files_remaining |-> OrZero(quota.files_expired[2])]
    @@ (IF kind = QUOTA_USER_KIND THEN [user |-> owner]
        ELSE IF kind = QUOTA_VO_KIND THEN [vo |-> owner]
        ELSE <<>>)

params(owner, fileset, quota) ==
    [fileset |-> fileset,
     used |-> quota.used, soft |-> quota.soft,
     hard |-> quota.hard, doubt |-> quota.doubt,
     expired |-> quota.expired[1],
     remaining |-> OrZero(quota.expired[2]),
     files_used |-> quota.files_used, files_soft |-> quota.files_soft,
     files_hard |-> quota.files_hard, files_doubt |-> quota.files_doubt,
     files_expired |-> quota.files_expired[1],
     files_remaining |-> OrZero(quota.files_expired[2])]
    @@ (IF kind = QUOTA_USER_KIND THEN [user |-> owner]
        ELSE IF kind = QUOTA_VO_KIND THEN [vo |-> owner]
        ELSE <<>>)

\* push_quota, lines 124-127: the buffer selected by shared
quota_target_swapped(shared) == IF shared THEN storage_name ELSE storage_name_shared

quota_target(shared) == IF shared THEN storage_name_shared ELSE storage_name

\* DjangoPusher.push_quota
push_quota(s, owner, fileset, quota, shared, fail) ==
    push(s, quota_target(shared), params(owner, fileset, quota), fail)

\* DjangoPusher.__exit__: ret is the value returned when nothing is raised
__exit__(s, exc_type, fail1, fail2) ==
    LET s1 == IF s.payload[storage_name] # <<>>
              THEN _push(s, storage_name, s.payload[storage_name], "exit", fail1)
              ELSE s
    IN  IF s1.exc # NoExc
        THEN [st |-> s1, ret |-> FALSE]
        ELSE LET s2 == IF s1.payload[storage_name_shared] # <<>>
                       THEN _push(s1, storage_name_shared,
                                  s1.payload[storage_name_shared], "exit", fail2)
                       ELSE s1
             IN  IF s2.exc # NoExc
                 THEN [st |-> s2, ret |-> FALSE]
                 ELSE [st |-> s2, ret |-> (exc_type = NoExc)]

\* What leaves a with statement: an exception raised by __exit__ replaces the
\* one in flight; otherwise the one in flight is re-raised unless __exit__
\* returned a true value.
WithOutcome(exc_type, r) ==
    IF r.st.exc # NoExc THEN r.st.exc
    ELSE IF exc_type # NoExc /\ ~r.ret THEN exc_type
    ELSE NoExc

---------------------------------------------------------------------------
\* Network calls and failures
IsCall(e) == e.result \in {"ok", "failed"}
NetCalls(log, k) == SelectSeq(log[k], IsCall)
NFailedIn(q) == Cardinality({i \in 1..Len(q) : q[i].result = "failed"})
NFailed(log) == NFailedIn(log[storage_name]) + NFailedIn(log[storage_name_shared])

Other(k) == IF k = storage_name THEN storage_name_shared ELSE storage_name

Install(s) ==
    /\ count' = s.count
    /\ payload' = s.payload
    /\ pushlog' = s.pushlog
    /\ dropped' = s.dropped

---------------------------------------------------------------------------
\* Nothing aggregated, processed or scanned yet
AggIdle ==
    /\ replication_factor = 1
    /\ timestamp = 0
    /\ user_map = <<>>
    /\ fs_map = <<>>
    /\ agg_pc = "idle"
    /\ agg_seen = <<>>

ProcIdle ==
    /\ proc_pc = "idle"
    /\ proc_todo = {}
    /\ exceeding = <<>>
    /\ proc_seen = <<>>

InodeIdle ==
    /\ backend = "gpfs"
    /\ inode_pc = "idle"
    /\ inode_todo = <<>>
    /\ inode_seen = <<>>
    /\ critical_filesets = <<>>

MainIdle ==
    /\ main_pc = "idle"
    /\ main_todo = <<>>
    /\ main_log = <<>>

\* A dispatcher just constructed
PusherNew ==
    /\ count = [k \in Keys |-> 0]
    /\ payload = [k \in Keys |-> <<>>]
    /\ pushlog = [k \in Keys |-> <<>>]
    /\ dropped = 0
    /\ pushed = [k \in Keys |-> <<>>]
    /\ inputs = <<>>
    /\ phase = "new"
    /\ exits = 0
    /\ raised = NoExc
    /\ orig = NoExc
    /\ outcome = NoExc

Init ==
    /\ AggIdle /\ ProcIdle /\ InodeIdle /\ MainIdle
    /\ kind \in {QUOTA_USER_KIND, QUOTA_VO_KIND, OTHER_KIND}
    /\ dry_run \in BOOLEAN
    /\ count = [k \in Keys |-> 0]
    /\ payload = [k \in Keys |-> <<>>]
    /\ pushlog = [k \in Keys |-> <<>>]
    /\ dropped = 0
    /\ pushed = [k \in Keys |-> <<>>]
    /\ inputs = <<>>
    /\ phase = "new"
    /\ exits = 0
    /\ raised = NoExc
    /\ orig = NoExc
    /\ outcome = NoExc

\* __enter__
Enter ==
    /\ phase = "new"
    /\ phase' = "open"
    /\ UNCHANGED <<kind, dry_run, count, payload, pushlog, dropped, pushed,
                   inputs, exits, raised, orig, outcome>>
    /\ UNCHANGED rest_vars

\* One call push(k, item) with the next serial record for k.  The sink's
\* answer is fail; caught tells whether the caller catches the exception
\* inside the with block and goes on.
PushOp(k, fail, caught, limit) ==
    /\ raised = NoExc
    /\ IF k \in Keys
       THEN /\ Len(pushed[k]) < limit
            /\ Len(pushed[k]) < MaxMinor \/ Len(pushed[Other(k)]) <= MaxMinor
       ELSE dropped < MaxUnknown
    /\ LET item == [serial |-> IF k \in Keys THEN Len(pushed[k]) + 1 ELSE 0]
           s == push(Self, k, item, fail)
       IN  /\ NFailed(s.pushlog) <= MaxFail
           /\ fail => s.exc # NoExc
           /\ caught => fail
           /\ Install(s)
           /\ pushed' = IF k \in Keys THEN [pushed EXCEPT ![k] = Append(@, item)]
                        ELSE pushed
           /\ raised' = IF caught THEN NoExc ELSE s.exc
    /\ UNCHANGED <<kind, dry_run, inputs, phase, exits, orig, outcome>>
    /\ UNCHANGED rest_vars

Push ==
    /\ phase = "open"
    /\ \E k \in Keys \cup {other_storage}, fail \in BOOLEAN, caught \in BOOLEAN :
          PushOp(k, fail, caught, MaxPush)

\* Leaving the with block: exc_type is the exception in flight, if any
ExitOp(exc_type, fail1, fail2) ==
    LET r == __exit__(Self, exc_type, fail1, fail2)
    IN  /\ NFailed(r.st.pushlog) <= MaxFail
        /\ NFailed(r.st.pushlog) =
              NFailed(pushlog) + (IF fail1 THEN 1 ELSE 0) + (IF fail2 THEN 1 ELSE 0)
        /\ Install(r.st)
        /\ orig' = exc_type
        /\ outcome' = WithOutcome(exc_type, r)
        /\ raised' = NoExc
        /\ exits' = exits + 1
        /\ phase' = "exited"
        /\ UNCHANGED <<kind, dry_run, pushed, inputs>>
        /\ UNCHANGED rest_vars

Exit ==
    /\ phase = "open"
    /\ \E exc_type \in {NoExc, BodyExc, raised}, fail1 \in BOOLEAN, fail2 \in BOOLEAN :
          /\ raised # NoExc => exc_type = raised
          /\ ExitOp(exc_type, fail1, fail2)

Next == Enter \/ Push \/ Exit

Spec == Init /\ [][Next]_vars

---------------------------------------------------------------------------
\* Reuse of a dispatcher after its scope was left: the object stays usable,
\* push can be called on it and it can be entered again.
ReEnter ==
    /\ phase = "exited"
    /\ exits < MaxEnter
    /\ phase' = "open"
    /\ UNCHANGED <<kind, dry_run, count, payload, pushlog, dropped, pushed,
                   inputs, exits, raised, orig, outcome>>
    /\ UNCHANGED rest_vars

RePush ==
    /\ phase \in {"open", "exited"}
    /\ \E k \in Keys, fail \in BOOLEAN, caught \in BOOLEAN :
          /\ phase = "exited" => (fail => caught)
          /\ PushOp(k, fail, caught, MaxReusePush)

NextReuse == Enter \/ ReEnter \/ RePush \/ Exit

SpecReuse == Init /\ [][NextReuse]_vars

---------------------------------------------------------------------------
\* push_quota with quota values drawn from a small set
Owners == {"vsc40001"}
Filesets == {"vsc400", "gvo00002"}

QuotaValue(expired, files_expired) ==
    [used |-> 11, soft |-> 12, hard |-> 13, doubt |-> 14,
     expired |-> expired,
     files_used |-> 21, files_soft |-> 22, files_hard |-> 23, files_doubt |-> 24,
     files_expired |-> files_expired]

QuotaValues ==
    { QuotaValue(<<FALSE, None>>, <<FALSE, None>>),
      QuotaValue(<<TRUE, None>>, <<FALSE, Some(7200)>>),
      QuotaValue(<<FALSE, Some(3600)>>, <<TRUE, None>>),
      QuotaValue(<<TRUE, Some(0)>>, <<FALSE, Some(0)>>) }

PushQuotaOp(owner, fileset, quota, shared, fail, caught, limit) ==
    /\ raised = NoExc
    /\ Len(inputs) < limit
    /\ LET s == push_quota(Self, owner, fileset, quota, shared, fail)
       IN  /\ NFailed(s.pushlog) <= MaxFail
           /\ fail => s.exc # NoExc
           /\ caught => fail
           /\ Install(s)
           /\ pushed' = [pushed EXCEPT ![quota_target(shared)] =
                                          Append(@, params(owner, fileset, quota))]
           /\ raised' = IF caught THEN NoExc ELSE s.exc
    /\ inputs' = Append(inputs, [owner |-> owner, fileset |-> fileset,
                                  quota |-> quota, shared |-> shared])
    /\ UNCHANGED <<kind, dry_run, phase, exits, orig, outcome>>
    /\ UNCHANGED rest_vars

PushQuota ==
    /\ phase = "open"
    /\ \E owner \in Owners, fileset \in Filesets, quota \in QuotaValues,
          shared \in BOOLEAN, fail \in BOOLEAN, caught \in BOOLEAN :
          PushQuotaOp(owner, fileset, quota, shared, fail, caught, MaxQuotaPush)

NextQuota == Enter \/ PushQuota \/ Exit

SpecQuota == Init /\ [][NextQuota]_vars

---------------------------------------------------------------------------
\* Observations used by the properties
Live == ~dry_run /\ kind \in {QUOTA_USER_KIND, QUOTA_VO_KIND}

RECURSIVE Bodies(_)
Bodies(q) == IF q = <<>> THEN <<>> ELSE Head(q).body \o Bodies(Tail(q))

\* The records the sink has received for key k, in order of arrival
Delivered(k) == Bodies(NetCalls(pushlog, k))

FromExit(e) == e.origin = "exit"
FromPush(e) == e.origin = "auto"
ExitFlushes(k) == SelectSeq(pushlog[k], FromExit)
AutoFlushes(k) == SelectSeq(pushlog[k], FromPush)

BodySizes(q) == [i \in 1..Len(q) |-> Len(q[i].body)]

---------------------------------------------------------------------------
\* C1: in live mode with kind user or vo, when no network call failed, after
\* scope exit the bodies sent for each sink key, concatenated, are exactly
\* the records pushed to that key, in push order.
C1_DeliveredExactlyOnce ==
    (phase = "exited" /\ Live /\ NFailed(pushlog) = 0)
        => \A k \in Keys : Delivered(k) = pushed[k]

C1_Witness ==
    /\ phase = "exited" /\ Live /\ NFailed(pushlog) = 0
    /\ Len(AutoFlushes(storage_name)) >= 1
    /\ Len(ExitFlushes(storage_name)) = 1
    /\ Len(ExitFlushes(storage_name_shared)) = 1
    /\ Len(pushed[storage_name]) > BatchSize + 1

\* C2 as stated: 250 pushes to one buffer flush automatically at the 101st
\* and the 201st push.
C2_FlushAt101And201 ==
    (phase = "open" /\ Live /\ NFailed(pushlog) = 0)
        => \A k \in Keys :
              Len(pushed[k]) <= 250 =>
                 Len(NetCalls(pushlog, k)) =
                    (IF Len(pushed[k]) >= 201 THEN 2
                     ELSE IF Len(pushed[k]) >= 101 THEN 1 ELSE 0)

\* C2 amended: 250 pushes to one buffer flush automatically at the 101st and
\* the 202nd push, 101 records each time, and scope exit flushes the
\* remaining 48: 3 network calls.
C2_FlushAt101And202 ==
    Live /\ NFailed(pushlog) = 0 =>
        \A k \in Keys :
           /\ (phase = "open" /\ Len(pushed[k]) <= 250) =>
                 /\ Len(NetCalls(pushlog, k)) =
                       (IF Len(pushed[k]) >= 202 THEN 2
                        ELSE IF Len(pushed[k]) >= 101 THEN 1 ELSE 0)
                 /\ \A i \in 1..Len(pushlog[k]) :
                       /\ pushlog[k][i].origin = "auto"
                       /\ Len(pushlog[k][i].body) = 101
           /\ (phase = "exited" /\ Len(pushed[k]) = 250) =>
                 /\ BodySizes(NetCalls(pushlog, k)) = <<101, 101, 48>>
                 /\ BodySizes(ExitFlushes(k)) = <<48>>

C2_Witness ==
    /\ phase = "exited" /\ Live /\ NFailed(pushlog) = 0
    /\ Len(pushed[storage_name]) = 250
    /\ Len(NetCalls(pushlog, storage_name)) = 3

\* C3 as stated: no call of _push carries more than 101 records, also when
\* a network call failed and the caller went on pushing.
C3_PayloadCapped ==
    \A k \in Keys : \A i \in 1..Len(pushlog[k]) :
        Len(pushlog[k][i].body) <= BatchSize + 1

\* C4: in dry-run mode the sink is never called, on automatic flushes and on
\* the flush at scope exit, for every kind; the payloads are only logged.
C4_DryRunNoCall ==
    dry_run => \A k \in Keys : \A i \in 1..Len(pushlog[k]) :
                  pushlog[k][i].result = "logged"

C4_Witness ==
    /\ dry_run /\ phase = "exited"
    /\ Len(AutoFlushes(storage_name_shared)) >= 1
    /\ Len(ExitFlushes(storage_name_shared)) = 1
    /\ Len(ExitFlushes(storage_name)) = 1

\* C5 as stated: a chunk whose network call failed is never submitted to the
\* sink a second time.
C5_NoResubmit ==
    \A k \in Keys : \A i, j \in 1..Len(pushlog[k]) :
        (i < j /\ pushlog[k][i].result = "failed")
            => pushlog[k][j].body # pushlog[k][i].body

\* C6 as stated: at scope exit each non-empty buffer has exactly one flush
\* attempt, also when the flush of the normal buffer fails.
C6_ExitFlushesEachOnce ==
    phase = "exited" =>
        \A k \in Keys :
            Len(ExitFlushes(k)) = (IF payload[k] # <<>> THEN 1 ELSE 0)

\* C7 as stated: an exception raised inside the scope is the one that
\* propagates after scope exit, also when the flush at exit fails.
C7_OriginalPropagates ==
    (phase = "exited" /\ orig # NoExc) => outcome = orig

\* C8: a push to a sink key the dispatcher does not know is logged and
\* dropped: it raises nothing, makes no call and leaves both buffers and
\* both counters unchanged.
C8_UnknownKeyDropped ==
    [][dropped' # dropped =>
          /\ count' = count
          /\ payload' = payload
          /\ pushlog' = pushlog
          /\ pushed' = pushed
          /\ raised' = NoExc]_vars

C8_Witness ==
    /\ dropped > 0
    /\ phase = "exited"
    /\ payload[storage_name] # <<>>
    /\ Len(ExitFlushes(storage_name)) = 1

\* C9 as stated: after scope exit the dispatcher accepts no push and sends
\* nothing more: buffers and sink calls stay as they are.
C9_ClosedAfterExit ==
    [][exits >= 1 => (payload' = payload /\ pushlog' = pushlog)]_vars

\* C10: the wire record built by push_quota keeps the eight counters, turns
\* each expiry pair into its flag and its remaining seconds with None as 0,
\* and carries the owner under user for kind user and under vo for kind vo.
Remaining(pair) == IF pair[2] = None THEN 0 ELSE pair[2][1]

WireOf(w, a) ==
    /\ w.fileset = a.fileset
    /\ w.used = a.quota.used /\ w.soft = a.quota.soft
    /\ w.hard = a.quota.hard /\ w.doubt = a.quota.doubt
    /\ w.files_used = a.quota.files_used /\ w.files_soft = a.quota.files_soft
    /\ w.files_hard = a.quota.files_hard /\ w.files_doubt = a.quota.files_doubt
    /\ w.expired = a.quota.expired[1]
    /\ w.remaining = Remaining(a.quota.expired)
    /\ w.files_expired = a.quota.files_expired[1]
    /\ w.files_remaining = Remaining(a.quota.files_expired)
    /\ kind = QUOTA_USER_KIND => ("user" \in DOMAIN w /\ w.user = a.owner)
    /\ kind = QUOTA_VO_KIND => ("vo" \in DOMAIN w /\ w.vo = a.owner)

ForShared(a) == a.shared
ForNormal(a) == ~a.shared
InputsOf(k) ==
    IF k = storage_name_shared THEN SelectSeq(inputs, ForShared)
    ELSE SelectSeq(inputs, ForNormal)

C10_WireRecord ==
    \A k \in Keys :
        /\ Len(payload[k]) = Len(InputsOf(k))
        /\ \A i \in 1..Len(payload[k]) : WireOf(payload[k][i], InputsOf(k)[i])

C10_Witness ==
    /\ kind = QUOTA_USER_KIND
    /\ \E i \in 1..Len(inputs) :
          /\ inputs[i].quota.expired = <<TRUE, None>>
          /\ ~inputs[i].shared
    /\ \E i \in 1..Len(payload[storage_name]) :
          /\ payload[storage_name][i].expired = TRUE
          /\ payload[storage_name][i].remaining = 0

---------------------------------------------------------------------------
\* Quota aggregation: get_quota_maps and _update_quota_entity
MaxRepl == 2          \* largest data replication factor
MaxRecords == 2       \* raw quota records per aggregation pass

\* The backend prints its counters as decimal text; int() reads them back
RECURSIVE Decimal(_)
Decimal(n) == IF n < 10 THEN <<n>> ELSE Decimal(n \div 10) \o <<n % 10>>

RECURSIVE int(_)
int(ds) ==
    IF Len(ds) = 1 THEN ds[1]
    ELSE 10 * int(SubSeq(ds, 1, Len(ds) - 1)) + ds[Len(ds)]

\* StorageQuota as listed by the backend; filesetname holds a fileset id
StorageQuota(bu, bq, bl, bd, bg, fu, fq, fl, fd, fg, fsid) ==
    [blockUsage |-> Decimal(bu), blockQuota |-> Decimal(bq),
     blockLimit |-> Decimal(bl), blockInDoubt |-> Decimal(bd), blockGrace |-> bg,
     filesUsage |-> Decimal(fu), filesQuota |-> Decimal(fq),
     filesLimit |-> Decimal(fl), filesInDoubt |-> Decimal(fd), filesGrace |-> fg,
     filesetname |-> fsid]

RawQuotas ==
    { StorageQuota(25, 10, 31, 3, "expired", 9, 5, 8, 1, "7days", 1),
      StorageQuota(10, 10, 31, 0, "none", 2, 5, 8, 0, "none", 1),
      StorageQuota(10, 10, 30, 1, "none", 6, 5, 8, 2, "expired", 2),
      StorageQuota(13, 10, 30, 0, "7days", 1, 5, 8, 0, "none", 4),
      StorageQuota(5, 10, 30, 1, "none", 5, 5, 8, 0, "none", 3),
      StorageQuota(21, 10, 30, 0, "none", 0, 5, 8, 0, "none", 0) }

\* Fileset ids of the filesystem and operator().get_fileset_name
FilesetIds == {1, 2, 3, 4}

get_fileset_name(fileset_id) ==
    IF fileset_id = 1 THEN "vsc400"
    ELSE IF fileset_id = 2 THEN "gvo00002"
    ELSE IF fileset_id = 3 THEN "gvos00002"
    ELSE "project1"

\* The user ids the backend reports and what the site knows about them
GENT == "gent"
BRUSSEL == "brussel"
UserIds == {2540001, 2540002, 2540003, 2510001}

\* VSC().user_id_to_institute
user_id_to_institute(uid) == IF uid = 2510001 THEN BRUSSEL ELSE GENT

\* user_map as built by map_uids_to_names, and the password database
user_id_map == (2540001 :> "vsc40001")
passwd == (2540001 :> "vsc40001") @@ (2540002 :> "vsc40002") @@ (2510001 :> "vsc10001")

\* operator().determine_grace_periods, one pair per grace indicator
GracePeriod(g) ==
    IF g = "expired" THEN <<TRUE, None>>
    ELSE IF g = "7days" THEN <<FALSE, Some(604800)>>
    ELSE <<FALSE, None>>

determine_grace_periods(quota) ==
    <<GracePeriod(quota.blockGrace), GracePeriod(quota.filesGrace)>>

\* _update_quota_entity, lines 276-281: None when the record has no fileset
fileset_name_of(quota) ==
    IF quota.filesetname # 0 THEN Some(get_fileset_name(quota.filesetname))
    ELSE None

\* _update_quota_entity, lines 289-300: the arguments of entity.update
update_args_divfiles(quota, r, ts) ==
    [fileset |-> fileset_name_of(quota),
     used |-> int(quota.blockUsage) \div r,
     soft |-> int(quota.blockQuota) \div r,
     hard |-> int(quota.blockLimit) \div r,
     doubt |-> int(quota.blockInDoubt) \div r,
     expired |-> determine_grace_periods(quota)[1],
     files_used |-> int(quota.filesUsage) \div r,
     files_soft |-> int(quota.filesQuota) \div r,
     files_hard |-> int(quota.filesLimit) \div r,
     files_doubt |-> int(quota.filesInDoubt) \div r,
     files_expired |-> determine_grace_periods(quota)[2],
     timestamp |-> ts]

update_args(quota, r, ts) ==
    [fileset |-> fileset_name_of(quota),
     used |-> int(quota.blockUsage) \div r,
     soft |-> int(quota.blockQuota) \div r,
     hard |-> int(quota.blockLimit) \div r,
     doubt |-> int(quota.blockInDoubt) \div r,
     expired |-> determine_grace_periods(quota)[1],
     files_used |-> int(quota.filesUsage),
     files_soft |-> int(quota.filesQuota),
     files_hard |-> int(quota.filesLimit),
     files_doubt |-> int(quota.filesInDoubt),
     files_expired |-> determine_grace_periods(quota)[2],
     timestamp |-> ts]

\* QuotaEntity (entities module): quota_map is an insertion-ordered dict,
\* kept as a sequence of entries with distinct fileset keys
QuotaEntity(owner) == [owner |-> owner, quota_map |-> <<>>]

Max(a, b) == IF a >= b THEN a ELSE b

\* Remaining seconds of two merged grace states: the least known one
MinRemaining(x, y) ==
    IF x = None THEN y
    ELSE IF y = None THEN x
    ELSE IF x[1] <= y[1] THEN x ELSE y

MergeExpired(old, new) == <<old[1] \/ new[1], MinRemaining(old[2], new[2])>>

\* Two sub-records of one fileset: usage is added up, limits are kept
MergeValue(old, a) ==
    [fileset |-> old.fileset,
     used |-> old.used + a.used,
     soft |-> Max(old.soft, a.soft),
     hard |-> Max(old.hard, a.hard),
     doubt |-> old.doubt + a.doubt,
     expired |-> MergeExpired(old.expired, a.expired),
     files_used |-> old.files_used + a.files_used,
     files_soft |-> Max(old.files_soft, a.files_soft),
     files_hard |-> Max(old.files_hard, a.files_hard),
     files_doubt |-> old.files_doubt + a.files_doubt,
     files_expired |-> MergeExpired(old.files_expired, a.files_expired),
     timestamp |-> a.timestamp]

\* QuotaEntity.update
update(entity, a) ==
    IF \E i \in 1..Len(entity.quota_map) : entity.quota_map[i].fileset = a.fileset
    THEN [entity EXCEPT !.quota_map =
             [i \in 1..Len(@) |->
                 IF @[i].fileset = a.fileset THEN MergeValue(@[i], a) ELSE @[i]]]
    ELSE [entity EXCEPT !.quota_map = Append(@, a)]

\* QuotaEntity.exceeds
exceeds_hard(entity) ==
    \E i \in 1..Len(entity.quota_map) :
        \/ entity.quota_map[i].used > entity.quota_map[i].hard
        \/ entity.quota_map[i].files_used > entity.quota_map[i].files_hard

exceeds(entity) ==
    \E i \in 1..Len(entity.quota_map) :
        \/ entity.quota_map[i].used > entity.quota_map[i].soft
        \/ entity.quota_map[i].files_used > entity.quota_map[i].files_soft

\* _update_quota_entity, lines 265-266: a single record becomes a list
as_list(storage_quotas) == storage_quotas.items

\* _update_quota_entity
RECURSIVE _update_quota_entity(_, _, _, _)
_update_quota_entity(entity, storage_quotas, r, ts) ==
    IF storage_quotas = <<>> THEN entity
    ELSE _update_quota_entity(update(entity, update_args(Head(storage_quotas), r, ts)),
                              Tail(storage_quotas), r, ts)

\* get_quota_maps, lines 224 and 239: the entity of a key, new when unseen
lookup_fresh(map, key) == QuotaEntity(key)

lookup(map, key) == IF key \in DOMAIN map THEN map[key] ELSE QuotaEntity(key)

\* get_quota_maps, lines 225 and 240: one iteration of either loop
store_resolved_only(map, key, storage_quotas, r, ts) ==
    IF key \notin DOMAIN passwd THEN map
    ELSE (key :> _update_quota_entity(lookup(map, key), as_list(storage_quotas), r, ts))
         @@ map

store(map, key, storage_quotas, r, ts) ==
    (key :> _update_quota_entity(lookup(map, key), as_list(storage_quotas), r, ts))
    @@ map

\* The values of one entry of quota_map[quota_type]: one StorageQuota or a
\* list of them
StorageQuotaInputs ==
    { [is_list |-> FALSE, items |-> <<q>>] : q \in RawQuotas }
    \cup { [is_list |-> TRUE, items |-> <<q1, q2>>] : q1, q2 \in RawQuotas }

Timestamps == {1700000000}

\* What one iteration hands over: each raw record with the arguments that
\* _update_quota_entity passes to entity.update for it
SeenRecords(pass, key, items, r, ts) ==
    [i \in 1..Len(items) |->
        [pass |-> pass, key |-> key, quota |-> items[i],
         args |-> update_args(items[i], r, ts)]]

\* get_quota_maps, lines 209-220
AggStart ==
    /\ agg_pc = "idle"
    /\ replication_factor' \in 1..MaxRepl
    /\ timestamp' \in Timestamps
    /\ user_map' = <<>>
    /\ fs_map' = <<>>
    /\ agg_pc' = "usr"
    /\ UNCHANGED <<agg_seen, pusher_vars, proc_vars, inode_vars, main_vars>>

\* get_quota_maps, lines 222-232: one iteration over the user quota; owner
\* is what get_quota_owner returns for the quota id
AggregateUser ==
    /\ agg_pc = "usr"
    /\ \E owner \in UserIds, storage_quota \in StorageQuotaInputs :
          /\ Len(agg_seen) + Len(storage_quota.items) <= MaxRecords
          /\ user_map' = store(user_map, owner, storage_quota,
                               replication_factor, timestamp)
          /\ agg_seen' = agg_seen \o SeenRecords("usr", owner, storage_quota.items,
                                                  replication_factor, timestamp)
    /\ UNCHANGED <<replication_factor, timestamp, fs_map, agg_pc>>
    /\ UNCHANGED <<pusher_vars, proc_vars, inode_vars, main_vars>>

\* get_quota_maps, lines 234-236
AggUsersDone ==
    /\ agg_pc = "usr"
    /\ agg_pc' = "fileset"
    /\ UNCHANGED <<replication_factor, timestamp, user_map, fs_map, agg_seen>>
    /\ UNCHANGED <<pusher_vars, proc_vars, inode_vars, main_vars>>

\* get_quota_maps, lines 237-247: one iteration over the fileset quota;
\* fileset_id is what get_quota_fileset returns for the quota id
AggregateFileset ==
    /\ agg_pc = "fileset"
    /\ \E fileset_id \in FilesetIds, storage_quota \in StorageQuotaInputs :
          /\ Len(agg_seen) + Len(storage_quota.items) <= MaxRecords
          /\ fs_map' = store(fs_map, fileset_id, storage_quota,
                             replication_factor, timestamp)
          /\ agg_seen' = agg_seen \o SeenRecords("fileset", fileset_id,
                                                  storage_quota.items,
                                                  replication_factor, timestamp)
    /\ UNCHANGED <<replication_factor, timestamp, user_map, agg_pc>>
    /\ UNCHANGED <<pusher_vars, proc_vars, inode_vars, main_vars>>

\* get_quota_maps, lines 249-251
AggReturn ==
    /\ agg_pc = "fileset"
    /\ agg_pc' = "done"
    /\ UNCHANGED <<replication_factor, timestamp, user_map, fs_map, agg_seen>>
    /\ UNCHANGED <<pusher_vars, proc_vars, inode_vars, main_vars>>

\* Before the quota check of one storage: nothing constructed yet
InitAgg ==
    /\ AggIdle /\ ProcIdle /\ InodeIdle /\ MainIdle
    /\ PusherNew
    /\ kind = QUOTA_VO_KIND
    /\ dry_run \in BOOLEAN

NextAgg == AggStart \/ AggregateUser \/ AggUsersDone \/ AggregateFileset \/ AggReturn

SpecAgg == InitAgg /\ [][NextAgg]_vars

---------------------------------------------------------------------------
\* Observations on the aggregation
RawNumbers == 0..99

\* The number a decimal text stands for
NumberOf(ds) == CHOOSE n \in RawNumbers : Decimal(n) = ds

\* q is the integer quotient of n by r, rounded down
IsFloorOf(q, n, r) == q * r <= n /\ n < (q + 1) * r

RECURSIVE Sum(_)
Sum(ns) == IF ns = <<>> THEN 0 ELSE Head(ns) + Sum(Tail(ns))

MapOf(pass) == IF pass = "usr" THEN user_map ELSE fs_map

\* The update arguments of the records seen for one key and one fileset
GroupOf(pass, key, fileset) ==
    LET InGroup(x) == x.pass = pass /\ x.key = key /\ x.args.fileset = fileset
        g == SelectSeq(agg_seen, InGroup)
    IN  [i \in 1..Len(g) |-> g[i].args]

\* C11: for every raw record and replication factor r >= 1 the entity is
\* given used, soft, hard and doubt as the raw block counters divided by r
\* and rounded down, and the four inode counters as they are, undivided.
C11_FloorDivision ==
    \A i \in 1..Len(agg_seen) :
        LET a == agg_seen[i].args
            q == agg_seen[i].quota
            r == replication_factor
        IN  /\ r >= 1
            /\ IsFloorOf(a.used, NumberOf(q.blockUsage), r)
            /\ IsFloorOf(a.soft, NumberOf(q.blockQuota), r)
            /\ IsFloorOf(a.hard, NumberOf(q.blockLimit), r)
            /\ IsFloorOf(a.doubt, NumberOf(q.blockInDoubt), r)
            /\ a.files_used = NumberOf(q.filesUsage)
            /\ a.files_soft = NumberOf(q.filesQuota)
            /\ a.files_hard = NumberOf(q.filesLimit)
            /\ a.files_doubt = NumberOf(q.filesInDoubt)

C11_Witness ==
    /\ replication_factor = 2
    /\ \E i \in 1..Len(agg_seen) :
          /\ NumberOf(agg_seen[i].quota.blockUsage) = 25
          /\ agg_seen[i].args.used = 12
          /\ agg_seen[i].args.files_used = 9
          /\ agg_seen[i].key \in DOMAIN MapOf(agg_seen[i].pass)

\* C12: the QuotaValue of a fileset holds the sum of the counters of all the
\* raw records seen for that owner and fileset, not the last record's
\* values, and all records of one owner end up in the one entity the map
\* holds for that owner.
SumsUp(pass, key, v) ==
    LET g == GroupOf(pass, key, v.fileset)
    IN  /\ g # <<>>
        /\ v.used = Sum([i \in 1..Len(g) |-> g[i].used])
        /\ v.doubt = Sum([i \in 1..Len(g) |-> g[i].doubt])
        /\ v.files_used = Sum([i \in 1..Len(g) |-> g[i].files_used])
        /\ v.files_doubt = Sum([i \in 1..Len(g) |-> g[i].files_doubt])

C12_MergeSums ==
    \A pass \in {"usr", "fileset"} :
        /\ \A key \in DOMAIN MapOf(pass) :
              /\ MapOf(pass)[key].owner = key
              /\ \A j \in 1..Len(MapOf(pass)[key].quota_map) :
                    SumsUp(pass, key, MapOf(pass)[key].quota_map[j])
        /\ \A i \in 1..Len(agg_seen) :
              agg_seen[i].pass = pass => agg_seen[i].key \in DOMAIN MapOf(pass)

C12_Witness ==
    \E key \in DOMAIN user_map :
        \E j \in 1..Len(user_map[key].quota_map) :
            LET v == user_map[key].quota_map[j]
                g == GroupOf("usr", key, v.fileset)
            IN  /\ Len(g) = 2
                /\ v.used = g[1].used + g[2].used
                /\ v.used # g[2].used

\* C16: aggregation discards no record because of its owner: every user
\* record seen is in the user map under the identifier the owner resolver
\* returned, also when no name is known for it, and every fileset record is
\* in the fileset map.
C16_NoRecordDiscarded ==
    \A i \in 1..Len(agg_seen) :
        LET m == MapOf(agg_seen[i].pass)
            key == agg_seen[i].key
        IN  /\ key \in DOMAIN m
            /\ m[key].owner = key
            /\ \E j \in 1..Len(m[key].quota_map) :
                  m[key].quota_map[j].fileset = agg_seen[i].args.fileset

C16_Witness ==
    /\ agg_pc = "done"
    /\ \E i \in 1..Len(agg_seen) :
          /\ agg_seen[i].pass = "usr"
          /\ agg_seen[i].key \notin DOMAIN passwd
          /\ agg_seen[i].key \in DOMAIN user_map
    /\ \E i \in 1..Len(agg_seen) :
          /\ agg_seen[i].pass = "fileset"
          /\ agg_seen[i].key \in DOMAIN fs_map

---------------------------------------------------------------------------
\* process_user_quota and process_fileset_quota
MaxProcRecords == 2   \* raw quota records behind the quota map processed

\* The names in use, as text
Names == {"vsc400", "vsc100", "gvo00002", "gvos00002", "project1",
          "vsc40001", "vsc40002", "vsc10001", "gvo", "gvos"}

Chars(name) ==
    CASE name = "vsc400" -> <<"v", "s", "c", "4", "0", "0">>
      [] name = "vsc100" -> <<"v", "s", "c", "1", "0", "0">>
      [] name = "gvo00002" -> <<"g", "v", "o", "0", "0", "0", "0", "2">>
      [] name = "gvos00002" -> <<"g", "v", "o", "s", "0", "0", "0", "0", "2">>
      [] name = "project1" -> <<"p", "r", "o", "j", "e", "c", "t", "1">>
      [] name = "vsc40001" -> <<"v", "s", "c", "4", "0", "0", "0", "1">>
      [] name = "vsc40002" -> <<"v", "s", "c", "4", "0", "0", "0", "2">>
      [] name = "vsc10001" -> <<"v", "s", "c", "1", "0", "0", "0", "1">>
      [] name = "gvo" -> <<"g", "v", "o">>
      [] name = "gvos" -> <<"g", "v", "o", "s">>

NameOf(cs) == CHOOSE name \in Names : Chars(name) = cs

\* str.startswith
StartsWithChars(cs, pre) == Len(cs) >= Len(pre) /\ SubSeq(cs, 1, Len(pre)) = pre
startswith(name, prefix) == StartsWithChars(Chars(name), Chars(prefix))

\* str.replace: every occurrence, left to right
RECURSIVE ReplaceChars(_, _, _)
ReplaceChars(cs, old, new) ==
    IF cs = <<>> THEN <<>>
    ELSE IF StartsWithChars(cs, old)
         THEN new \o ReplaceChars(SubSeq(cs, Len(old) + 1, Len(cs)), old, new)
         ELSE <<Head(cs)>> \o ReplaceChars(Tail(cs), old, new)

replace(name, old, new) == NameOf(ReplaceChars(Chars(name), Chars(old), Chars(new)))

\* vsc.config.base, for the host institute
VO_PREFIX == "gvo"
VO_SHARED_PREFIX == "gvos"

\* A TypeError raised by re.search on a fileset that is None
TypeErr == [type |-> "TypeError", key |-> "", call |-> 0]

\* path_template['user'](user_name)[1]: the fileset of the user's directory
user_fileset(user_name) == NameOf(SubSeq(Chars(user_name), 1, 6))

\* process_user_quota, lines 170-179: the name of the user, None to skip
user_name_of(user_id) ==
    IF user_id_to_institute(user_id) # GENT THEN None
    ELSE IF user_id \in DOMAIN user_id_map /\ user_id_map[user_id] # ""
         THEN Some(user_id_map[user_id])
    ELSE IF user_id \in DOMAIN passwd THEN Some(passwd[user_id])
    ELSE None

\* process_user_quota, lines 183-188: re.search(fileset_re, fileset)
fileset_matches(fileset, fileset_name) ==
    LET cs == Chars(fileset)
    IN  \/ (StartsWithChars(cs, <<"v", "s", "c">>) /\ Len(cs) >= 4
             /\ cs[4] \in {"1", "2", "3", "4"})
        \/ startswith(fileset, VO_PREFIX)
        \/ startswith(fileset, VO_SHARED_PREFIX)
        \/ startswith(fileset, fileset_name)

\* The state of the loop body of one key: the dispatcher, the calls of
\* push_quota made so far and the exception that ended it, if any
Body(s) == [st |-> s, calls |-> <<>>, exc |-> NoExc]

Call(owner, fileset, quota, shared) ==
    [owner |-> owner, fileset |-> fileset, quota |-> quota, shared |-> shared]

PushCall(b, owner, fileset, quota, shared) ==
    LET s == push_quota(b.st, owner, fileset, quota, shared, FALSE)
    IN  [st |-> s, calls |-> Append(b.calls, Call(owner, fileset, quota, shared)),
         exc |-> s.exc]

\* process_user_quota, lines 187-189
RECURSIVE push_matching(_, _, _, _)
push_matching(b, entries, user_name, fileset_name) ==
    IF entries = <<>> \/ b.exc # NoExc THEN b
    ELSE IF Head(entries).fileset = None THEN [b EXCEPT !.exc = TypeErr]
    ELSE IF fileset_matches(Head(entries).fileset[1], fileset_name)
    THEN push_matching(PushCall(b, user_name, Head(entries).fileset,
                                Head(entries), FALSE),
                       Tail(entries), user_name, fileset_name)
    ELSE push_matching(b, Tail(entries), user_name, fileset_name)

\* process_fileset_quota, lines 330-331
RECURSIVE push_all(_, _, _, _)
push_all(b, entries, vo_name, shared) ==
    IF entries = <<>> \/ b.exc # NoExc THEN b
    ELSE push_all(PushCall(b, vo_name, Head(entries).fileset, Head(entries), shared),
                  Tail(entries), vo_name, shared)

\* process_user_quota, lines 191-192, and process_fileset_quota, lines
\* 333-334: is the entity listed; calls are the pushes made for it
is_exceeding_pushed(quota, calls) == exceeds(quota) /\ calls # <<>>

is_exceeding(quota, calls) == exceeds(quota)

\* process_user_quota, lines 168-192: the loop body for one user
process_user(s, user_id, quota) ==
    LET name == user_name_of(user_id)
    IN  IF name = None
        THEN [body |-> Body(s), name |-> None, listed |-> FALSE]
        ELSE LET b == push_matching(Body(s), quota.quota_map, name[1],
                                    user_fileset(name[1]))
             IN  [body |-> b, name |-> name,
                  listed |-> b.exc = NoExc /\ is_exceeding(quota, b.calls)]

\* process_fileset_quota, lines 315-334: the loop body for one fileset
process_fileset(s, fileset_id, quota) ==
    LET fileset_name == get_fileset_name(fileset_id)
    IN  IF ~startswith(fileset_name, VO_PREFIX)
        THEN [body |-> Body(s), name |-> None, listed |-> FALSE]
        ELSE LET shared == startswith(fileset_name, VO_SHARED_PREFIX)
                 vo_name == IF shared
                            THEN replace(fileset_name, VO_SHARED_PREFIX, VO_PREFIX)
                            ELSE fileset_name
                 b == push_all(Body(s), quota.quota_map, vo_name, shared)
             IN  [body |-> b, name |-> Some(fileset_name),
                  listed |-> b.exc = NoExc /\ is_exceeding(quota, b.calls)]

\* The wire records of a sequence of push_quota calls made for key k
RECURSIVE WireRecords(_, _)
WireRecords(calls, k) ==
    IF calls = <<>> THEN <<>>
    ELSE (IF quota_target(Head(calls).shared) = k
          THEN <<params(Head(calls).owner, Head(calls).fileset, Head(calls).quota)>>
          ELSE <<>>) \o WireRecords(Tail(calls), k)

\* The quota map handed to the function: what get_quota_maps builds from a
\* listing of (key, quota) items
RECURSIVE BuildMap(_, _)
BuildMap(listing, ts) ==
    IF listing = <<>> THEN <<>>
    ELSE store(BuildMap(SubSeq(listing, 1, Len(listing) - 1), ts),
               listing[Len(listing)].key, listing[Len(listing)].storage_quota, 1, ts)

ProcQuotaInputs ==
    { [is_list |-> FALSE, items |-> <<q>>] : q \in RawQuotas }
    \cup { [is_list |-> TRUE, items |-> <<>>] }

Listings(keys) ==
    UNION { [1..n -> [key : keys, storage_quota : ProcQuotaInputs]] :
              n \in 0..MaxProcRecords }

\* One iteration of the loop of either function, over the key picked
ProcessStep(key, r) ==
    /\ Install(r.body.st)
    /\ raised' = r.body.exc
    /\ inputs' = inputs \o r.body.calls
    /\ pushed' = [k \in Keys |-> pushed[k] \o WireRecords(r.body.calls, k)]
    /\ exceeding' = IF r.listed
                    THEN Append(exceeding, <<r.name[1],
                                             IF proc_pc = "user" THEN user_map[key]
                                             ELSE fs_map[key]>>)
                    ELSE exceeding
    /\ proc_seen' = Append(proc_seen, [key |-> key, name |-> r.name,
                                        calls |-> r.body.calls,
                                        exc |-> r.body.exc])
    /\ proc_todo' = proc_todo \ {key}
    /\ UNCHANGED <<kind, dry_run, phase, exits, orig, outcome, proc_pc>>
    /\ UNCHANGED <<agg_vars, inode_vars, main_vars>>

ProcessUser ==
    /\ proc_pc = "user" /\ phase = "open" /\ raised = NoExc
    /\ \E user_id \in proc_todo :
          ProcessStep(user_id, process_user(Self, user_id, user_map[user_id]))

ProcessFileset ==
    /\ proc_pc = "vo" /\ phase = "open" /\ raised = NoExc
    /\ \E fileset_id \in proc_todo :
          ProcessStep(fileset_id, process_fileset(Self, fileset_id, fs_map[fileset_id]))

\* The with block is left when the loop is over or an exception is in flight
ProcExit ==
    /\ proc_pc \in {"user", "vo"} /\ phase = "open"
    /\ proc_todo = {} \/ raised # NoExc
    /\ \E fail1 \in BOOLEAN, fail2 \in BOOLEAN : ExitOp(raised, fail1, fail2)

\* process_user_quota, line 194, and process_fileset_quota, line 336
ProcReturn ==
    /\ proc_pc \in {"user", "vo"} /\ phase = "exited"
    /\ proc_pc' = IF outcome = NoExc THEN "returned" ELSE "raised"
    /\ UNCHANGED <<proc_todo, exceeding, proc_seen>>
    /\ UNCHANGED <<pusher_vars, agg_vars, inode_vars, main_vars>>

\* At the entry of either function, its dispatcher constructed
InitProc ==
    /\ InodeIdle /\ MainIdle /\ PusherNew
    /\ dry_run \in BOOLEAN
    /\ replication_factor = 1
    /\ timestamp \in Timestamps
    /\ agg_pc = "done"
    /\ agg_seen = <<>>
    /\ exceeding = <<>>
    /\ proc_seen = <<>>
    /\ \/ /\ kind = QUOTA_USER_KIND /\ proc_pc = "user"
          /\ user_map \in { BuildMap(l, timestamp) : l \in Listings(UserIds) }
          /\ fs_map = <<>>
          /\ proc_todo = DOMAIN user_map
       \/ /\ kind = QUOTA_VO_KIND /\ proc_pc = "vo"
          /\ fs_map \in { BuildMap(l, timestamp) : l \in Listings(FilesetIds) }
          /\ user_map = <<>>
          /\ proc_todo = DOMAIN fs_map

NextProc == Enter \/ ProcessUser \/ ProcessFileset \/ ProcExit \/ ProcReturn

SpecProc == InitProc /\ [][NextProc]_vars

---------------------------------------------------------------------------
\* Observations on the processing of a quota map
MapIn == IF proc_pc = "user" \/ kind = QUOTA_USER_KIND THEN user_map ELSE fs_map

\* The names listed as exceeding
Listed == { exceeding[j][1] : j \in 1..Len(exceeding) }

\* Some fileset entry is over a soft limit, of blocks or of inodes
OverSoft(entity) ==
    \E j \in 1..Len(entity.quota_map) :
        \/ entity.quota_map[j].used > entity.quota_map[j].soft
        \/ entity.quota_map[j].files_used > entity.quota_map[j].files_soft

\* The keys whose loop body ran to its end without being skipped
Checked(i) == proc_seen[i].name # None /\ proc_seen[i].exc = NoExc

\* C13: an entity is reported as exceeding if and only if at least one
\* fileset entry of its quota map has used > soft or files_used > files_soft,
\* strictly and against the soft limit; an entity with an empty quota map is
\* never reported.
C13_ExceedsSoft ==
    \A i \in 1..Len(proc_seen) :
        Checked(i) =>
            /\ (proc_seen[i].name[1] \in Listed) <=> OverSoft(MapIn[proc_seen[i].key])
            /\ MapIn[proc_seen[i].key].quota_map = <<>>
                  => proc_seen[i].name[1] \notin Listed

C13_Witness ==
    /\ proc_pc = "returned"
    /\ \E i \in 1..Len(proc_seen) :
          /\ Checked(i)
          /\ proc_seen[i].name[1] \in Listed
          /\ ~exceeds_hard(MapIn[proc_seen[i].key])
    /\ \E i \in 1..Len(proc_seen) :
          /\ Checked(i)
          /\ proc_seen[i].name[1] \notin Listed
          /\ \E j \in 1..Len(MapIn[proc_seen[i].key].quota_map) :
                LET v == MapIn[proc_seen[i].key].quota_map[j]
                IN  v.used = v.soft \/ v.files_used = v.files_soft

\* An entity without any fileset entry is processed and not reported
C13_EmptyWitness ==
    \E i \in 1..Len(proc_seen) :
        /\ Checked(i)
        /\ MapIn[proc_seen[i].key].quota_map = <<>>
        /\ proc_seen[i].name[1] \notin Listed

\* The users process_user_quota does not skip, and their names
Resolves(user_id) == user_id \in DOMAIN user_id_map \/ user_id \in DOMAIN passwd
ResolvedName(user_id) ==
    IF user_id \in DOMAIN user_id_map THEN user_id_map[user_id] ELSE passwd[user_id]
Eligible == { u \in DOMAIN user_map : user_id_to_institute(u) = GENT /\ Resolves(u) }
Skipped == DOMAIN user_map \ Eligible
PushedFor(key) ==
    \E i \in 1..Len(proc_seen) : proc_seen[i].key = key /\ proc_seen[i].calls # <<>>

\* C19: when process_user_quota returns, its exceeding list holds exactly
\* the users of the quota map that belong to the host institute, whose name
\* resolves and whose entity exceeds, each once with its name and entity,
\* whether or not any of their records matched the fileset filter; skipped
\* users are neither pushed nor listed.
C19_ExceedingUsers ==
    (proc_pc = "returned" /\ kind = QUOTA_USER_KIND) =>
        /\ { exceeding[j] : j \in 1..Len(exceeding) } =
              { <<ResolvedName(u), user_map[u]>> : u \in { e \in Eligible : exceeds(user_map[e]) } }
        /\ Len(exceeding) = Cardinality({ e \in Eligible : exceeds(user_map[e]) })
        /\ \A u \in Skipped :
              /\ ~PushedFor(u)
              /\ Resolves(u) =>
                    /\ ResolvedName(u) \notin Listed
                    /\ \A i \in 1..Len(inputs) : inputs[i].owner # ResolvedName(u)

C19_Witness ==
    /\ proc_pc = "returned" /\ kind = QUOTA_USER_KIND
    /\ \E u \in Eligible : ResolvedName(u) \in Listed /\ ~PushedFor(u)
    /\ \E u \in Skipped : exceeds(user_map[u])

\* A listed user some of whose records were pushed
C19_PushedWitness ==
    /\ proc_pc = "returned" /\ kind = QUOTA_USER_KIND
    /\ \E u \in Eligible : ResolvedName(u) \in Listed /\ PushedFor(u)

---------------------------------------------------------------------------
\* process_inodes_information
MaxFilesets == 2      \* filesets of the filesystem scanned

\* threshold as passed by the callers, 0.9 = ThresholdNum / ThresholdDen.
\* used > threshold * maxinodes is decided on the exact fraction: the float
\* product is the integer 9 * maxinodes / 10 whenever that is an integer and
\* is not an integer otherwise.
ThresholdNum == 9
ThresholdDen == 10

\* The values of the storage argument: the gpfs backend and others
Backends == {"gpfs", "lustre", "VSC_DATA"}

InodeCritical(used, allocated, maxinodes) ==
    [used |-> used, allocated |-> allocated, maxinodes |-> maxinodes]

\* One fileset as listed: fs_info of list_filesets and the first quota
\* record of the fileset, numbers as decimal text
FilesetCase(name, alloc, maxi, usage, limit) ==
    [filesetName |-> name, allocInodes |-> Decimal(alloc), maxInodes |-> Decimal(maxi),
     filesUsage |-> Decimal(usage), filesLimit |-> Decimal(limit)]

FilesetCases(name) ==
    { FilesetCase(name, 512, 1000, 901, 1000),
      FilesetCase(name, 512, 1000, 900, 1000),
      FilesetCase(name, 0, 0, 901, 0),
      FilesetCase(name, 16, 10, 10, 10),
      FilesetCase(name, 16, 10, 9, 10),
      FilesetCase(name, 512, 1000, 10, 10),
      FilesetCase(name, 16, 10, 10, 0) }

\* process_inodes_information, line 173
allocated_of(storage, fs_info) ==
    IF storage = "gpfs" THEN int(fs_info.allocInodes) ELSE 0

\* process_inodes_information, line 174
maxinodes_of(storage, fs_info) ==
    IF storage = "gpfs" THEN int(fs_info.maxInodes) ELSE int(fs_info.filesLimit)

\* process_inodes_information, line 177
is_critical_ge(used, maxinodes) ==
    maxinodes > 0 /\ ThresholdDen * used >= ThresholdNum * maxinodes

is_critical(used, maxinodes) ==
    maxinodes > 0 /\ ThresholdDen * used > ThresholdNum * maxinodes

\* process_inodes_information, lines 172-179: one iteration of the loop
scan_fileset(critical, storage, fs_info) ==
    LET allocated == allocated_of(storage, fs_info)
        maxinodes == maxinodes_of(storage, fs_info)
        used == int(fs_info.filesUsage)
    IN  IF is_critical(used, maxinodes)
        THEN (fs_info.filesetName :> InodeCritical(used, allocated, maxinodes))
             @@ critical
        ELSE critical

ScanFileset ==
    /\ inode_pc = "scan"
    /\ \E fs_key \in DOMAIN inode_todo :
          /\ critical_filesets' = scan_fileset(critical_filesets, backend,
                                                inode_todo[fs_key])
          /\ inode_seen' = Append(inode_seen, inode_todo[fs_key])
          /\ inode_todo' = [k \in DOMAIN inode_todo \ {fs_key} |-> inode_todo[k]]
    /\ UNCHANGED <<backend, inode_pc>>
    /\ UNCHANGED <<pusher_vars, agg_vars, proc_vars, main_vars>>

\* process_inodes_information, line 181
ScanReturn ==
    /\ inode_pc = "scan"
    /\ DOMAIN inode_todo = {}
    /\ inode_pc' = "returned"
    /\ UNCHANGED <<backend, inode_todo, inode_seen, critical_filesets>>
    /\ UNCHANGED <<pusher_vars, agg_vars, proc_vars, main_vars>>

\* At the entry of process_inodes_information: filesets keyed 1..n, each
\* with its own name
InitInode ==
    /\ AggIdle /\ ProcIdle /\ MainIdle /\ PusherNew
    /\ kind = QUOTA_USER_KIND
    /\ dry_run = FALSE
    /\ backend \in Backends
    /\ inode_pc = "scan"
    /\ inode_seen = <<>>
    /\ critical_filesets = <<>>
    /\ \E n \in 0..MaxFilesets :
          inode_todo \in { f \in [1..n -> UNION { FilesetCases(get_fileset_name(k)) : k \in 1..n }] :
                             \A k \in 1..n : f[k].filesetName = get_fileset_name(k) }

NextInode == ScanFileset \/ ScanReturn

SpecInode == InitInode /\ [][NextInode]_vars

\* The numbers in the listings
InodeNumbers == {0, 9, 10, 16, 512, 900, 901, 1000}
InodeNumberOf(ds) == CHOOSE n \in InodeNumbers : Decimal(n) = ds

\* The limit the backend gives for a fileset
LimitOf(fs_info) ==
    IF backend = "gpfs" THEN InodeNumberOf(fs_info.maxInodes)
    ELSE InodeNumberOf(fs_info.filesLimit)

\* C14: when process_inodes_information returns, a fileset is reported as
\* critical if and only if its maxinodes is positive and ten times its usage
\* is strictly more than nine times maxinodes (used > 0.9 * maxinodes); the
\* record reported carries that used and maxinodes, and allocated is the
\* listing's allocInodes for the gpfs backend and 0 for any other.
C14_CriticalIffOverThreshold ==
    inode_pc = "returned" =>
        /\ \A i \in 1..Len(inode_seen) :
              LET f == inode_seen[i]
                  used == InodeNumberOf(f.filesUsage)
              IN  /\ (f.filesetName \in DOMAIN critical_filesets)
                        <=> (LimitOf(f) > 0 /\ 10 * used > 9 * LimitOf(f))
                  /\ LimitOf(f) = 0 => f.filesetName \notin DOMAIN critical_filesets
                  /\ (LimitOf(f) = 1000 /\ used = 901)
                        => f.filesetName \in DOMAIN critical_filesets
                  /\ (LimitOf(f) = 1000 /\ used = 900)
                        => f.filesetName \notin DOMAIN critical_filesets
                  /\ f.filesetName \in DOMAIN critical_filesets =>
                        critical_filesets[f.filesetName] =
                            [used |-> used,
                             allocated |-> IF backend = "gpfs"
                                           THEN InodeNumberOf(f.allocInodes) ELSE 0,
                             maxinodes |-> LimitOf(f)]
        /\ \A name \in DOMAIN critical_filesets :
              \E i \in 1..Len(inode_seen) : inode_seen[i].filesetName = name

C14_Witness ==
    /\ inode_pc = "returned" /\ backend = "gpfs"
    /\ \E i, j \in 1..Len(inode_seen) :
          /\ inode_seen[i].maxInodes = Decimal(1000)
          /\ inode_seen[i].filesUsage = Decimal(901)
          /\ inode_seen[i].filesetName \in DOMAIN critical_filesets
          /\ critical_filesets[inode_seen[i].filesetName].allocated = 512
          /\ inode_seen[j].maxInodes = Decimal(1000)
          /\ inode_seen[j].filesUsage = Decimal(900)
          /\ inode_seen[j].filesetName \notin DOMAIN critical_filesets

\* Another backend: the limit comes from the quota record, allocated is 0
C14_OtherBackendWitness ==
    /\ inode_pc = "returned" /\ backend # "gpfs"
    /\ \E i \in 1..Len(inode_seen) :
          /\ inode_seen[i].maxInodes = Decimal(1000)
          /\ inode_seen[i].filesLimit = Decimal(10)
          /\ inode_seen[i].allocInodes = Decimal(512)
          /\ inode_seen[i].filesetName \in DOMAIN critical_filesets
          /\ critical_filesets[inode_seen[i].filesetName].allocated = 0

---------------------------------------------------------------------------
\* dquota.py main: the loop over the storage systems
MaxStorages == 3      \* storage systems named on the command line

StorageNames == {"VSC_HOME", "VSC_DATA", "VSC_SCRATCH"}

\* What the collaborators do for one storage system: the backend raises, it
\* lists no such filesystem or no quota for it, or the quota is listed and
\* aggregation raises, dispatch raises or both go well
StorageOutcomes == {"backend_raises", "no_filesystem", "no_quota",
                    "aggregation_raises", "dispatch_raises", "ok"}

\* Positional arguments get_quota_maps takes (tools.py, line 197) and the
\* number dquota.py passes to it (line 100)
GetQuotaMapsParams == 3
GetQuotaMapsArgs == 2

\* dquota.py, lines 79-108: what visiting one storage system ends in
visit(storage_outcome) ==
    IF storage_outcome = "backend_raises" THEN "raised"
    ELSE IF storage_outcome \in {"no_filesystem", "no_quota"} THEN "skipped"
    ELSE IF GetQuotaMapsArgs # GetQuotaMapsParams THEN "raised"
    ELSE IF storage_outcome \in {"aggregation_raises", "dispatch_raises"} THEN "raised"
    ELSE "processed"

\* dquota.py, lines 79-131: one iteration of the loop; an exception leaves
\* the loop for the handler of lines 133-135
VisitStorage ==
    /\ main_pc = "loop"
    /\ main_todo # <<>>
    /\ \E storage_outcome \in StorageOutcomes :
          LET result == visit(storage_outcome)
          IN  /\ main_log' = Append(main_log, [storage_name |-> Head(main_todo),
                                                outcome |-> storage_outcome,
                                                result |-> result])
              /\ main_pc' = IF result = "raised" THEN "critical" ELSE "loop"
    /\ main_todo' = Tail(main_todo)
    /\ UNCHANGED <<pusher_vars, agg_vars, proc_vars, inode_vars>>

\* dquota.py, line 137
Epilogue ==
    /\ main_pc = "loop"
    /\ main_todo = <<>>
    /\ main_pc' = "done"
    /\ UNCHANGED <<main_todo, main_log>>
    /\ UNCHANGED <<pusher_vars, agg_vars, proc_vars, inode_vars>>

\* dquota.py, line 78: before the first storage system
InitMain ==
    /\ AggIdle /\ ProcIdle /\ InodeIdle /\ PusherNew
    /\ kind = QUOTA_USER_KIND
    /\ dry_run \in BOOLEAN
    /\ main_pc = "loop"
    /\ main_log = <<>>
    /\ main_todo \in UNION { [1..n -> StorageNames] : n \in 0..MaxStorages }

NextMain == VisitStorage \/ Epilogue

SpecMain == InitMain /\ [][NextMain]_vars

\* C15: a failure while processing one storage system does not abort the
\* processing of the next: when the run is over, every storage system named
\* has been visited.
C15_FailureDoesNotAbort ==
    main_pc \in {"done", "critical"} => main_todo = <<>>

---------------------------------------------------------------------------
\* A step in which push or push_quota was called and returned normally: a
\* record was taken or dropped and no network call failed
PushReturned ==
    /\ pushed' # pushed \/ dropped' # dropped
    /\ NFailed(pushlog') = NFailed(pushlog)

\* C17: after every push or push_quota call that returns normally, for each
\* of the two sink keys the counter equals the length of the key's buffer
\* and both are at most 100, and the keys of the buffers and counters are
\* the two fixed at construction.
C17_CounterMatchesBuffer ==
    [][PushReturned =>
          /\ DOMAIN payload' = Keys /\ DOMAIN count' = Keys
          /\ \A k \in Keys : count'[k] = Len(payload'[k]) /\ count'[k] <= BatchSize]_vars

---------------------------------------------------------------------------
\* A long run of push_quota calls inside the with block, both buffers in
\* use, the sink answering every call
MaxQuotaRun == 103    \* push_quota calls of the run
MaxRunHead == 2       \* first calls, each for either buffer; the rest fill one

\* The quota of the n-th call
QuotaSerial(n) == [QuotaValue(<<FALSE, None>>, <<FALSE, None>>) EXCEPT !.used = n]

PushQuotaRun ==
    /\ phase = "open"
    /\ \E shared \in BOOLEAN :
          /\ IF Len(inputs) < MaxRunHead THEN TRUE
             ELSE shared = inputs[Len(inputs)].shared
          /\ PushQuotaOp("vsc40001", "vsc400", QuotaSerial(Len(inputs) + 1), shared,
                         FALSE, FALSE, MaxQuotaRun)

NextQuotaRun == Enter \/ PushQuotaRun \/ Exit

InitQuotaRun ==
    /\ AggIdle /\ ProcIdle /\ InodeIdle /\ MainIdle /\ PusherNew
    /\ kind \in {QUOTA_USER_KIND, QUOTA_VO_KIND}
    /\ dry_run = FALSE

SpecQuotaRun == InitQuotaRun /\ [][NextQuotaRun]_vars

\* The buffer the last call of push_quota was for, by its shared argument
LastInput == inputs'[Len(inputs')]
BufferOf(a) == IF a.shared THEN storage_name_shared ELSE storage_name

\* The record of call a was appended to the buffer of k, or sent with the
\* whole buffer by the automatic flush this call triggered
TakenBy(k, a) ==
    \/ /\ Len(payload'[k]) = Len(payload[k]) + 1
       /\ SubSeq(payload'[k], 1, Len(payload[k])) = payload[k]
       /\ WireOf(payload'[k][Len(payload'[k])], a)
       /\ count'[k] = count[k] + 1
       /\ pushlog'[k] = pushlog[k]
    \/ /\ Len(pushlog'[k]) = Len(pushlog[k]) + 1
       /\ SubSeq(pushlog'[k], 1, Len(pushlog[k])) = pushlog[k]
       /\ LET body == pushlog'[k][Len(pushlog'[k])].body
          IN  /\ Len(body) = Len(payload[k]) + 1
              /\ SubSeq(body, 1, Len(payload[k])) = payload[k]
              /\ WireOf(body[Len(body)], a)
       /\ payload'[k] = <<>> /\ count'[k] = 0

\* C18: push_quota puts its record in the shared buffer exactly when shared
\* is true and in the normal buffer otherwise, and a call for one buffer,
\* also one that triggers its automatic flush, leaves the contents and the
\* counter of the other buffer unchanged and sends nothing to the other key.
C18_BuffersIndependent ==
    [][Len(inputs') = Len(inputs) + 1 =>
          /\ TakenBy(BufferOf(LastInput), LastInput)
          /\ payload'[Other(BufferOf(LastInput))] = payload[Other(BufferOf(LastInput))]
          /\ count'[Other(BufferOf(LastInput))] = count[Other(BufferOf(LastInput))]
          /\ pushlog'[Other(BufferOf(LastInput))] = pushlog[Other(BufferOf(LastInput))]]_vars

\* An automatic flush of one buffer happened while the other held a record,
\* for the shared buffer and for the normal one
C18_Witness ==
    /\ phase = "open"
    /\ Len(AutoFlushes(storage_name_shared)) = 1
    /\ Len(payload[storage_name]) = 1
    /\ pushlog[storage_name] = <<>>
    /\ payload[storage_name][1].used < BatchSize

C18_NormalWitness ==
    /\ phase = "open"
    /\ Len(AutoFlushes(storage_name)) = 1
    /\ Len(payload[storage_name_shared]) = 1
    /\ pushlog[storage_name_shared] = <<>>
    /\ payload[storage_name_shared][1].used < BatchSize

====
